---- MODULE Spec2Model ----
(***************************************************************************)
(* Model of the audio-reactive avatar controller GdmLiveAudioAvatar        *)
(* (src/unnamed/part_000, lines 240-584).                                  *)
(*                                                                         *)
(* Numbers are fixed point.  Morph weights, levels, positions, rotations   *)
(* and the blink progress are in millionths (U = 1.0).  Times              *)
(* (performance.now(), nextBlinkAt) are in milliseconds; dt and dancePhase *)
(* are in thousandths of a second.  Interpolation rates and the EMA factor *)
(* are in percent.                                                         *)
(*                                                                         *)
(* The session layer GdmLiveAudio (src/index.tsx) that drives the          *)
(* controller's mode is modelled by gdm and web; its audio clock           *)
(* (outputAudioContext.currentTime) and buffer durations are in whole      *)
(* time units.                                                             *)
(***************************************************************************)
EXTENDS Integers, Sequences, FiniteSets, TLC

VARIABLES
  now,      \* performance.now() in ms
  clock,    \* the THREE.Clock of the controller: [running, oldTime]
  av,       \* the controller object (fields of GdmLiveAudioAvatar and its rig)
  ref,      \* a second controller driven by the same clock and audio
  refKind,  \* how ref is driven: "idle" (never leaves Idle), "fine" (two half-dt ticks per
            \* tick), "levels" (its own analyser data), "twice" (startSpeaking applied twice),
            \* "quiet" (follows av on the steady quiet output)
  ticks,    \* number of animate() calls so far
  lastOp,   \* kind of the operation that produced the current state
  lastDt,   \* dt of the latest animate()
  lastFire, \* time at which blinkT was last set to 1.0, -1 if never
  prevFire, \* time of the blink before that one, -1 if none
  idleRun,  \* consecutive animate() calls in Idle with the avatar loaded
  idleOnly, \* every animate() so far ran in Idle
  silent,   \* per channel: the latest animate() found no analysis data
  blinkPeak, \* largest eyelid value written since the latest blink fired, -1 if none
  gdm,      \* the session object (fields of GdmLiveAudio)
  web       \* the browser side of the session: audio clock, messages and their
            \* buffer sources, microphone streams, and what has happened so far

vars == <<now, clock, av, ref, refKind, ticks, lastOp, lastDt,
          lastFire, prevFire, idleRun, idleOnly, silent, blinkPeak, gdm, web>>

(* ------------------------------ bounds --------------------------------- *)
MaxTicks == 3
\* server messages received, audio clock horizon, startRecording calls
MaxMessages == 3
MaxTime == 3
MaxMicCalls == 2

(* ------------------------------ inputs --------------------------------- *)
\* elapsed wall-clock time between two animation frames, in ms
DtSet == {100, 3050}
\* Math.random() * 4000, in ms
RandomOffsets == {0, 3999}
\* analyser snapshots handed to one frame: frequency bins 0..255 per channel
Snapshots ==
  { [in |-> <<>>,        out |-> <<255, 255>>],
    [in |-> <<255, 0>>,  out |-> <<60, 8>>] }
\* analyser data of a steady quiet output: both buffers have the mean 15/255 * 0.35
\* that the level reaches after one tick of the first buffer
QuietSnapshots ==
  { [in |-> <<>>, out |-> <<15, 15>>],
    [in |-> <<>>, out |-> <<5, 5, 5, 6>>] }
\* audioBuffer.duration of a decoded chunk, in time units
Durations == {1, 2}
\* rigs the asset may provide: morph names per mesh in dictionary order
Rigs == {"aligned", "shifted"}

\* the fixed-point unit: 1.0
U == 1000 * 1000

Modes == {"idle", "speak", "whisper", "dance"}

Abs(x) == IF x < 0 THEN -x ELSE x
Max(a, b) == IF a >= b THEN a ELSE b

\* Math.sin of an angle in milliradians, result in thousandths
\* (Bhaskara's rational approximation on each half period)
SinHalf(x) ==
  LET c == x \div 10
      p == c * (314 - c)
  IN  (16000 * p) \div (492980 - 4 * p)

Sin(mrad) ==
  LET a == mrad % 6283
  IN  IF a < 3142 THEN SinHalf(a) ELSE -SinHalf(a - 3142)

\* a clamp that forgets the upper limit
ClampNoUpper(value, lo, hi) == IF value < lo THEN lo ELSE value

\* THREE.MathUtils.clamp
Clamp(value, lo, hi) == IF value < lo THEN lo ELSE IF value > hi THEN hi ELSE value

\* THREE.MathUtils.lerp(x, y, t) = (1 - t) * x + t * y, t in percent
Lerp(x, y, t) == ((100 - t) * x + t * y) \div 100

RECURSIVE SumSeq(_)
SumSeq(s) == IF s = <<>> THEN 0 ELSE Head(s) + SumSeq(Tail(s))

(* ------------------------------- rig ----------------------------------- *)
Meshes == {"Wolf3D_Head", "Wolf3D_Teeth"}

\* morphTargetDictionary of each mesh: the name at position i has index i
MorphNames(rig, mesh) ==
  IF mesh = "Wolf3D_Head"
  THEN <<"mouthOpen", "mouthSmile", "eyeBlinkLeft", "eyeBlinkRight">>
  ELSE IF rig = "aligned" THEN <<"mouthOpen", "mouthSmile">>
       ELSE <<"mouthSmile", "mouthOpen">>

\* child.morphTargetDictionary[name]; 0 stands for undefined
MorphIndex(rig, mesh, name) ==
  LET names == MorphNames(rig, mesh)
  IN  IF \E i \in 1..Len(names) : names[i] = name
      THEN CHOOSE i \in 1..Len(names) : names[i] = name
      ELSE 0

\* the names doBlink writes
EyelidNames == {"eyeBlinkLeft", "eyeBlinkRight", "eyesClosed"}

\* fields of a freshly constructed controller (lines 281-306)
NewAvatar ==
  [ _mode |-> "idle", outLevel |-> 0, inLevel |-> 0,
    nextBlinkAt |-> 0, blinkT |-> 0,
    dancePhase |-> 0, isDancing |-> FALSE,
    inputAnalyser |-> FALSE, outputAnalyser |-> FALSE,
    avatar |-> FALSE, rig |-> "aligned",
    infl |-> [m \in Meshes |-> <<>>],
    position |-> [y |-> 0],
    rotation |-> [x |-> 0, y |-> 0, z |-> 0],
    head |-> [x |-> 0, y |-> 0, z |-> 0],
    earL |-> [scaleY |-> U, rotZ |-> 0],
    earR |-> [scaleY |-> U, rotZ |-> 0] ]

\* avatar.getObjectByName('LeftEar') / ('RightEar') finds a node
HasEars(rig) == rig = "aligned"

(* --------------------------- pure helpers ------------------------------ *)
\* an EMA that adds the sample without decaying the previous level
pullLevelAdditive(an, data, prev, alpha) ==
  IF ~an \/ Len(data) = 0 THEN (prev * 95) \div 100
  ELSE prev + (((SumSeq(data) * U) \div (Len(data) * 255)) * alpha) \div 100

\* pullLevel's two early returns: no analyser, or an empty buffer
NoData(an, data) == ~an \/ Len(data) = 0

\* a level that snaps to zero when there is no data
pullLevelSnap(an, data, prev, alpha) ==
  IF ~an \/ Len(data) = 0 THEN 0
  ELSE (prev * (100 - alpha) + ((SumSeq(data) * U) \div (Len(data) * 255)) * alpha) \div 100

\* pullLevel(an, prev, alpha): an is whether the analyser exists, data its bins
pullLevel(an, data, prev, alpha) ==
  IF ~an THEN (prev * 95) \div 100
  ELSE IF Len(data) = 0 THEN (prev * 95) \div 100
  ELSE LET sum == SumSeq(data)
           v == (sum * U) \div (Len(data) * 255)
       IN  (prev * (100 - alpha) + v * alpha) \div 100

\* a write that stores at a new slot when the name has no index
WriteInflAppend(infl, idx, val) ==
  LET at == IF idx = 0 THEN Len(infl) + 1 ELSE idx
  IN  [i \in 1..Max(Len(infl), at) |->
         IF i = at THEN val ELSE IF i <= Len(infl) THEN infl[i] ELSE 0]

\* one mesh's morphTargetInfluences after writing val at dictionary index idx
WriteInfl(infl, idx, val) ==
  IF idx = 0 THEN infl
  ELSE [i \in 1..Max(Len(infl), idx) |->
          IF i = idx THEN val ELSE IF i <= Len(infl) THEN infl[i] ELSE 0]

\* morphTargetInfluences[idx] || 0
ReadInfl(infl, idx) == IF idx >= 1 /\ idx <= Len(infl) THEN infl[idx] ELSE 0

lerpMorph(s, name, to, rate) ==
  IF ~s.avatar THEN s
  ELSE [s EXCEPT !.infl =
          [m \in Meshes |->
             LET idx == MorphIndex(s.rig, m, name)
                 cur == ReadInfl(s.infl[m], idx)
             IN  WriteInfl(s.infl[m], idx, Lerp(cur, Clamp(to, 0, U), rate))]]

\* a direct write that interpolates like lerpMorph instead of assigning
\* variant: only the head mesh is written
applyMorphHeadOnly(s, name, value) ==
  IF ~s.avatar THEN s
  ELSE [s EXCEPT !.infl["Wolf3D_Head"] =
          WriteInfl(s.infl["Wolf3D_Head"], MorphIndex(s.rig, "Wolf3D_Head", name),
                    Clamp(value, 0, U))]

applyMorphInterpolated(s, name, value) == lerpMorph(s, name, value, 15)

applyMorph(s, name, value) ==
  IF ~s.avatar THEN s
  ELSE [s EXCEPT !.infl =
          [m \in Meshes |->
             WriteInfl(s.infl[m], MorphIndex(s.rig, m, name), Clamp(value, 0, U))]]

\* a scheduler that forgets the 2000 ms minimum
scheduleNextBlinkNoMinimum(s, t, r) == [s EXCEPT !.nextBlinkAt = t + r]

\* scheduleNextBlink: t is performance.now(), r is Math.random() * 4000
scheduleNextBlink(s, t, r) == [s EXCEPT !.nextBlinkAt = t + 2000 + r]

\* variant: a blink starts whenever it is due
BlinkFiresWhileActive(s, t) == t >= s.nextBlinkAt

\* the condition under which doBlink starts a blink
BlinkFires(s, t) == t >= s.nextBlinkAt /\ s.blinkT <= 0

\* doBlink's second condition at time t: a blink is in progress after the start check
BlinkActive(s, t) == BlinkFires(s, t) \/ s.blinkT > 0

\* variant: a sawtooth that follows the countdown
BlinkPhaseSaw(blinkT) == Max(blinkT, 0)

\* the triangular envelope written to the eyelid channels
BlinkPhase(blinkT) == U - Abs(U - Max(blinkT, 0) * 2)

\* variant: the envelope is taken before the countdown moves
doBlinkPhaseBeforeStep(s, t, dt, r) ==
  LET s1 == IF BlinkFires(s, t)
            THEN scheduleNextBlink([s EXCEPT !.blinkT = U], t, r)
            ELSE s
  IN  IF s1.blinkT > 0
      THEN LET s2 == [s1 EXCEPT !.blinkT = s1.blinkT - dt * 6000]
               phase == BlinkPhase(s1.blinkT)
           IN  applyMorph(applyMorph(applyMorph(s2,
                 "eyeBlinkLeft", phase), "eyeBlinkRight", phase), "eyesClosed", phase)
      ELSE s1

\* variant: the fallback name is a mouth channel
doBlinkOpensMouth(s, t, dt, r) ==
  LET s1 == IF BlinkFires(s, t)
            THEN scheduleNextBlink([s EXCEPT !.blinkT = U], t, r)
            ELSE s
  IN  IF s1.blinkT > 0
      THEN LET s2 == [s1 EXCEPT !.blinkT = s1.blinkT - dt * 6000]
               phase == BlinkPhase(s2.blinkT)
           IN  applyMorph(applyMorph(applyMorph(s2,
                 "eyeBlinkLeft", phase), "eyeBlinkRight", phase), "mouthOpen", phase)
      ELSE s1

\* doBlink (lines 445-461)
doBlink(s, t, dt, r) ==
  LET s1 == IF BlinkFires(s, t)
            THEN scheduleNextBlink([s EXCEPT !.blinkT = U], t, r)
            ELSE s
  IN  IF s1.blinkT > 0
      THEN LET s2 == [s1 EXCEPT !.blinkT = s1.blinkT - dt * 6000]
               phase == BlinkPhase(s2.blinkT)
           IN  applyMorph(applyMorph(applyMorph(s2,
                 "eyeBlinkLeft", phase), "eyeBlinkRight", phase), "eyesClosed", phase)
      ELSE s1

\* the values of all eyelid channels of the rig
EyelidValues(s) ==
  { ReadInfl(s.infl[mn[1]], MorphIndex(s.rig, mn[1], mn[2])) :
      mn \in { x \in Meshes \X EyelidNames : MorphIndex(s.rig, x[1], x[2]) # 0 } }

\* the head mesh's eyeBlinkLeft influence
HeadEyelid(s) ==
  ReadInfl(s.infl["Wolf3D_Head"], MorphIndex(s.rig, "Wolf3D_Head", "eyeBlinkLeft"))

(* ------------------------- animate, step by step ----------------------- *)
\* lines 472-485: head rotation; t is performance.now()
HeadStep(s, t) ==
  IF ~s.avatar THEN s
  ELSE [s EXCEPT !.head =
          [y |-> Sin((t * 9) \div 10) * 30,
           x |-> Sin((t * 6) \div 10) * 20,
           z |-> Lerp(s.head.z, s.inLevel \div 10, 10)]]

\* lines 491-504: ears follow the input level
EarStep(s, t) ==
  IF ~s.avatar \/ ~HasEars(s.rig) THEN s
  ELSE LET earScale == U + (s.inLevel * 3) \div 10
           wiggle == (Sin(t * 6) * s.inLevel) \div 4000
       IN  [s EXCEPT !.earL = [scaleY |-> earScale + wiggle, rotZ |-> s.inLevel \div 10],
                     !.earR = [scaleY |-> earScale - wiggle, rotZ |-> -(s.inLevel \div 10)]]

\* the body pose of the dance case as a function of a time in ms
DancePositionY(t) == Sin(t * 4) * 50 + 20000
DanceRotationY(t) == Sin(t * 2) * 250
DanceRotationZ(t) == Sin((t * 32) \div 10) * 70

\* the body pose of the idle case as a function of a time in ms
IdlePositionY(t) == Sin((t * 12) \div 10) * 15
IdleRotationY(t) == Sin((t * 6) \div 10) * 50
IdleRotationX(t) == Sin((t * 4) \div 10) * 30

\* variant: the smile is written directly, like the mouth
SpeakCaseSnapSmile(s) ==
  LET mouth == Clamp(s.outLevel * 3, 0, U)
  IN  applyMorph(applyMorph(s, "mouthOpen", mouth), "mouthSmile", mouth)

\* lines 509-515
SpeakCase(s) ==
  LET mouth == Clamp(s.outLevel * 3, 0, U)
  IN  lerpMorph(applyMorph(s, "mouthOpen", mouth), "mouthSmile", mouth, 15)

\* lines 516-527
WhisperCase(s) ==
  LET mouth == Clamp((s.outLevel * 12) \div 10, 0, 400000)
      s1 == lerpMorph(applyMorph(s, "mouthOpen", mouth), "mouthSmile", 150000, 8)
      lean == 40000 + (s.outLevel * 5) \div 100
  IN  IF ~s1.avatar THEN s1
      ELSE [s1 EXCEPT !.position.y = Lerp(s1.position.y, lean, 8),
                      !.rotation.x = Lerp(s1.rotation.x, -30000, 8)]

\* the dance-phase accumulator after a dance tick of dt
DancePhaseStep(phase, dt) == phase + dt

\* lines 528-543
DanceCase(s, t, dt) ==
  LET s1 == [s EXCEPT !.isDancing = TRUE,
                      !.dancePhase = DancePhaseStep(s.dancePhase, dt)]
      s2 == IF ~s1.avatar THEN s1
            ELSE [s1 EXCEPT !.position.y = DancePositionY(t),
                            !.rotation.y = DanceRotationY(t),
                            !.rotation.z = DanceRotationZ(t)]
      mouth == Clamp((s.outLevel * 25) \div 10, 0, U)
  IN  lerpMorph(applyMorph(s2, "mouthOpen", mouth),
                "mouthSmile", 250000 + (s.outLevel * 3) \div 10, 15)

\* lines 544-558
IdleCase(s, t) ==
  LET idleMouth == (Sin((t * 9) \div 10) + 1000) * 50
      s1 == lerpMorph(s, "mouthOpen", idleMouth, 10)
  IN  IF ~s1.avatar THEN s1
      ELSE [s1 EXCEPT !.position.y = IdlePositionY(t),
                      !.rotation.y = IdleRotationY(t),
                      !.rotation.x = IdleRotationX(t)]

\* lines 508-559: the switch on this._mode
ModeStep(s, t, dt) ==
  CASE s._mode = "speak"   -> SpeakCase(s)
    [] s._mode = "whisper" -> WhisperCase(s)
    [] s._mode = "dance"   -> DanceCase(s, t, dt)
    [] OTHER               -> IdleCase(s, t)

\* lines 561-568: the teeth mesh is written at the head mesh's mouthOpen index
TeethStep(s) ==
  IF ~s.avatar THEN s
  ELSE LET idx == MorphIndex(s.rig, "Wolf3D_Head", "mouthOpen")
       IN  IF idx = 0 THEN s
           ELSE [s EXCEPT !.infl["Wolf3D_Teeth"] =
                   WriteInfl(s.infl["Wolf3D_Teeth"], idx,
                             ReadInfl(s.infl["Wolf3D_Head"], idx))]

\* lines 469-470: both smoothed levels
LevelStep(s, data) ==
  [s EXCEPT !.outLevel = pullLevel(s.outputAnalyser, data.out, s.outLevel, 35),
            !.inLevel = pullLevel(s.inputAnalyser, data.in, s.inLevel, 35)]

\* animate(): one frame at time t with delta dt, analyser data and random r
\* animate up to the blink step (lines 467-568)
animateBody(s, t, dt, data) ==
  LET s1 == LevelStep(s, data)
      s2 == HeadStep(s1, t)
      s3 == lerpMorph(s2, "mouthSmile", 0, 12)
      s4 == EarStep(s3, t)
      s5 == ModeStep(s4, t, dt)
  IN  TeethStep(s5)

animate(s, t, dt, data, r) == doBlink(animateBody(s, t, dt, data), t, dt, r)

\* the loader callback of loadAvatar (lines 361-382) for a rig
loadAvatar(s, rig, t, r) ==
  scheduleNextBlink(
    [s EXCEPT !.avatar = TRUE, !.rig = rig,
              !.infl = [m \in Meshes |-> [i \in 1..Len(MorphNames(rig, m)) |-> 0]],
              !.position = [y |-> 0]],
    t, r)

\* public controls, lines 386-390, and the mode setter, lines 290-293
\* a startSpeaking that toggles: a second call leaves Speak again
startSpeakingToggle(s) ==
  [s EXCEPT !._mode = IF s._mode = "speak" THEN "idle" ELSE "speak"]
startSpeaking(s) == [s EXCEPT !._mode = "speak"]
startWhisper(s) == [s EXCEPT !._mode = "whisper"]
startDance(s) == [s EXCEPT !._mode = "dance", !.isDancing = TRUE]
\* a stopDance that always returns to idle
stopDanceAlwaysIdle(s) == [s EXCEPT !.isDancing = FALSE, !._mode = "idle"]
\* a stopDance that also rewinds the dance phase
stopDanceResetsPhase(s) ==
  [s EXCEPT !.isDancing = FALSE, !.dancePhase = 0,
            !._mode = IF s._mode = "dance" THEN "idle" ELSE s._mode]
stopDance(s) == [s EXCEPT !.isDancing = FALSE,
                          !._mode = IF s._mode = "dance" THEN "idle" ELSE s._mode]
\* a goIdle that also puts the body back in its rest pose
goIdleResetsPose(s) ==
  [s EXCEPT !._mode = "idle", !.isDancing = FALSE,
            !.position = [y |-> 0], !.rotation = [x |-> 0, y |-> 0, z |-> 0]]
goIdle(s) == [s EXCEPT !._mode = "idle", !.isDancing = FALSE]
setMode(s, m) == [s EXCEPT !._mode = m]

\* THREE.Clock.getDelta() in thousandths of a second: 0 on the call that starts the clock
ClockGetDelta(c, t) == IF ~c.running THEN 0 ELSE t - c.oldTime

(* ------------------------------ actions -------------------------------- *)
\* fields of a freshly constructed session (lines 15-34, 86-88); 0 stands for
\* an unset mediaStream, sourceNode or scriptProcessorNode
NewSession ==
  [isRecording |-> FALSE, nextStartTime |-> 0, sources |-> {},
   mediaStream |-> 0, sourceNode |-> 0, scriptProcessorNode |-> 0]

\* the browser side at construction: no message received, no microphone call made
NewWeb ==
  [currentTime |-> 0,
   arrived |-> 0,
   phase |-> [m \in 1..MaxMessages |-> "none"],
   dur |-> [m \in 1..MaxMessages |-> 0],
   startAt |-> [m \in 1..MaxMessages |-> 0],
   endAt |-> [m \in 1..MaxMessages |-> 0],
   started |-> <<>>,
   clean |-> {},
   stale |-> {},
   micCalls |-> 0,
   awaiting |-> {},
   streams |-> {},
   processors |-> {}]

InitCommon ==
  /\ now = 0
  /\ clock = [running |-> FALSE, oldTime |-> 0]
  /\ av = NewAvatar
  /\ ref = NewAvatar
  /\ ticks = 0
  /\ lastOp = "new"
  /\ lastDt = 0
  /\ lastFire = -1
  /\ prevFire = -1
  /\ idleRun = 0
  /\ idleOnly = TRUE
  /\ silent = [in |-> FALSE, out |-> FALSE]
  /\ blinkPeak = -1
  /\ gdm = NewSession
  /\ web = NewWeb

\* ref is the uninterrupted-Idle run
Init == InitCommon /\ refKind = "idle"

\* ref is the run that takes two ticks of half the dt for each tick of av
InitRate == InitCommon /\ refKind = "fine"

\* ref is a run in the same modes whose analysers deliver other data
InitLevels == InitCommon /\ refKind = "levels"

\* ref is the run in which every startSpeaking() is called twice in a row
InitTwice == InitCommon /\ refKind = "twice"

\* a run on the steady quiet output; ref follows av
InitQuiet == InitCommon /\ refKind = "quiet"

\* the analyser data a tick may find
FrameSnapshots == IF refKind = "quiet" THEN QuietSnapshots ELSE Snapshots

\* how ref follows a frame of av
RefAnimate(s, told, t, dt, data, r) ==
  IF refKind = "fine" /\ dt > 0
  THEN animate(animate(s, told + dt \div 2, dt \div 2, data, r), t, dt \div 2, data, r)
  ELSE animate(s, t, dt, data, r)

\* how ref follows a mode-control call of av
RefControl(s, s2) == IF refKind = "idle" THEN s ELSE s2

\* how ref follows a startSpeaking() call of av
RefStartSpeaking(s) ==
  IF refKind = "twice" THEN startSpeaking(startSpeaking(s)) ELSE startSpeaking(s)

\* the analyser data ref sees in a frame in which av sees data
RefSnapshots(data) == IF refKind = "levels" THEN Snapshots ELSE {data}

\* the first frame runs inside firstUpdated (lines 318-323), later ones after a delay
FrameDelays == IF clock.running THEN DtSet ELSE {0}

\* Math.random() is drawn only when scheduleNextBlink runs
RandomDraws(scheduled) == IF scheduled THEN RandomOffsets ELSE {0}

\* one animation frame (requestAnimationFrame callback, lines 464-574)
Animate ==
  /\ ticks < MaxTicks
  /\ \E d \in FrameDelays, data \in FrameSnapshots :
       LET t == now + d
           dt == ClockGetDelta(clock, t)
           fired == BlinkFires(av, t)
       IN  \E r \in RandomDraws(fired \/ refKind = "fine"), data2 \in RefSnapshots(data) :
           /\ now' = t
           /\ clock' = [running |-> TRUE, oldTime |-> t]
           /\ av' = animate(av, t, dt, data, r)
           /\ ref' = RefAnimate(ref, now, t, dt, data2, r)
           /\ lastDt' = dt
           /\ lastFire' = IF fired THEN t ELSE lastFire
           /\ prevFire' = IF fired THEN lastFire ELSE prevFire
           /\ idleRun' = IF av._mode = "idle" /\ av.avatar THEN idleRun + 1 ELSE 0
           /\ idleOnly' = (idleOnly /\ av._mode = "idle")
           /\ silent' = [in |-> NoData(av.inputAnalyser, data.in),
                         out |-> NoData(av.outputAnalyser, data.out)]
           /\ blinkPeak' =
                LET sofar == IF fired THEN -1 ELSE blinkPeak
                IN  IF BlinkActive(av, t) /\ av.avatar
                    THEN Max(sofar, HeadEyelid(animate(av, t, dt, data, r)))
                    ELSE sofar
  /\ ticks' = ticks + 1
  /\ lastOp' = "animate"
  /\ UNCHANGED <<refKind, gdm, web>>

\* the GLTF loader delivers the avatar (lines 361-382), after firstUpdated ran
LoadAvatar ==
  /\ ticks < MaxTicks
  /\ clock.running
  /\ ~av.avatar
  /\ \E rig \in Rigs, r \in RandomOffsets :
       /\ av' = loadAvatar(av, rig, now, r)
       /\ ref' = loadAvatar(ref, rig, now, r)
  /\ lastOp' = "loadAvatar"
  /\ idleRun' = 0
  /\ UNCHANGED <<now, clock, refKind, ticks, lastDt, lastFire, prevFire, idleOnly, silent, blinkPeak, gdm, web>>

\* a mode-control call with result s2 for av and r2 for ref
Control(s2, r2) ==
  /\ ticks < MaxTicks
  /\ av' = s2
  /\ ref' = RefControl(ref, r2)
  /\ lastOp' = "control"
  /\ idleRun' = 0
  /\ UNCHANGED <<now, clock, refKind, ticks, lastDt, lastFire, prevFire, idleOnly, silent, blinkPeak, gdm, web>>

StartSpeaking == Control(startSpeaking(av), RefStartSpeaking(ref))
StartWhisper == Control(startWhisper(av), startWhisper(ref))
StartDance == Control(startDance(av), startDance(ref))
StopDance == Control(stopDance(av), stopDance(ref))
GoIdle == Control(goIdle(av), goIdle(ref))
SetMode == \E m \in Modes : Control(setMode(av, m), setMode(ref, m))

\* the two setters (lines 258-269) create the analysers
setInputNode(s) == [s EXCEPT !.inputAnalyser = TRUE]
setOutputNode(s) == [s EXCEPT !.outputAnalyser = TRUE]

\* the host's template binds .inputNode and .outputNode when it renders the
\* element (src/index.tsx 352-355), which is before the element's firstUpdated
SetNodes ==
  /\ ~clock.running
  /\ ~av.inputAnalyser
  /\ av' = setOutputNode(setInputNode(av))
  /\ ref' = setOutputNode(setInputNode(ref))
  /\ lastOp' = "setNodes"
  /\ UNCHANGED <<now, clock, refKind, ticks, lastDt, lastFire, prevFire, idleRun, idleOnly, silent, blinkPeak, gdm, web>>

Next ==
  \/ Animate
  \/ LoadAvatar
  \/ StartSpeaking
  \/ StartWhisper
  \/ StartDance
  \/ StopDance
  \/ GoIdle
  \/ SetMode
  \/ SetNodes

Spec == Init /\ [][Next]_vars

SpecRate == InitRate /\ [][Next]_vars

SpecLevels == InitLevels /\ [][Next]_vars

SpecTwice == InitTwice /\ [][Next]_vars
SpecQuiet == InitQuiet /\ [][Next]_vars

\* a frame is delivered: the step that counts a tick (only Animate does)
Frame == ticks < MaxTicks /\ ticks' = ticks + 1

\* animate() re-arms itself with requestAnimationFrame before anything else,
\* so frames keep coming whatever the control calls do
SpecFrames == Init /\ [][Next]_vars /\ WF_ticks(Frame)

(* --------------------------- session layer ----------------------------- *)
Min(x, y) == IF x < y THEN x ELSE y

\* what a session step leaves alone in the controller: only its mode moves
SessionStep(op, av2) ==
  /\ av' = av2
  /\ lastOp' = op
  /\ UNCHANGED <<now, clock, ref, refKind, ticks, lastDt, lastFire, prevFire,
                 idleRun, idleOnly, silent, blinkPeak>>

\* onmessage with an audio part, up to the await (lines 135-152)
OnMessageAudio ==
  /\ web.arrived < MaxMessages
  /\ \E d \in Durations :
       LET m == web.arrived + 1
       IN  /\ gdm' = [gdm EXCEPT !.nextStartTime = Max(@, web.currentTime)]
           /\ web' = [web EXCEPT !.arrived = m, !.phase[m] = "decoding",
                                  !.dur[m] = d, !.clean = @ \cup {m}]
  /\ SessionStep("onmessage", startSpeaking(av))

\* the same handler after the await: create, start and register the source
\* (lines 153-166); the message carries no interrupted flag
DecodeDone ==
  /\ \E m \in 1..web.arrived :
       /\ web.phase[m] = "decoding"
       /\ LET begin == Max(gdm.nextStartTime, web.currentTime)
          IN  /\ gdm' = [gdm EXCEPT !.nextStartTime = @ + web.dur[m],
                                     !.sources = @ \cup {m}]
              /\ web' = [web EXCEPT !.phase[m] = "playing",
                                     !.startAt[m] = begin,
                                     !.endAt[m] = begin + web.dur[m],
                                     !.started = Append(@, m)]
  /\ SessionStep("decoded", av)

\* onmessage with the interrupted flag and no audio part (lines 169-178)
OnMessageInterrupted ==
  /\ web.arrived < MaxMessages
  /\ LET m == web.arrived + 1
     IN  /\ gdm' = [gdm EXCEPT !.sources = {}, !.nextStartTime = 0]
         /\ web' = [web EXCEPT
                !.arrived = m,
                !.phase = [k \in 1..MaxMessages |->
                             IF k = m THEN "control"
                             ELSE IF k \in gdm.sources THEN "stopped" ELSE @[k]],
                !.endAt = [k \in 1..MaxMessages |->
                             IF k \in gdm.sources
                             THEN Max(@[k] - web.dur[k], Min(@[k], web.currentTime))
                             ELSE @[k]],
                !.clean = {},
                !.stale = 1..m]
  /\ SessionStep("interrupted", goIdle(av))

\* the 'ended' listener of a source that has played to its end or was stopped
\* (lines 156-162)
Ended ==
  /\ \E m \in 1..web.arrived :
       /\ \/ web.phase[m] = "stopped"
          \/ web.phase[m] = "playing" /\ web.currentTime >= web.endAt[m]
       /\ gdm' = [gdm EXCEPT !.sources = @ \ {m}]
       /\ web' = [web EXCEPT !.phase[m] = "done"]
       /\ SessionStep("ended", IF gdm.sources \ {m} = {} THEN goIdle(av) ELSE av)

\* the audio clock moves on
AdvanceTime ==
  /\ web.currentTime < MaxTime
  /\ web' = [web EXCEPT !.currentTime = @ + 1]
  /\ UNCHANGED gdm
  /\ SessionStep("time", av)

\* onerror (lines 180-183)
OnError ==
  /\ web' = [web EXCEPT !.clean = {}]
  /\ UNCHANGED gdm
  /\ SessionStep("onerror", goIdle(av))

\* onclose (lines 184-187)
OnClose ==
  /\ web' = [web EXCEPT !.clean = {}]
  /\ UNCHANGED gdm
  /\ SessionStep("onclose", goIdle(av))

\* startRecording up to the await of getUserMedia (lines 223-236); the start
\* button is shown while isRecording is false
StartRecording ==
  /\ ~gdm.isRecording
  /\ web.micCalls < MaxMicCalls
  /\ web' = [web EXCEPT !.micCalls = @ + 1, !.awaiting = @ \cup {web.micCalls + 1}]
  /\ UNCHANGED gdm
  /\ SessionStep("startRecording", av)

\* startRecording after getUserMedia resolved (lines 238-265)
MicGranted ==
  /\ \E c \in web.awaiting :
       /\ gdm' = [gdm EXCEPT !.mediaStream = c, !.sourceNode = c,
                              !.scriptProcessorNode = c, !.isRecording = TRUE]
       /\ web' = [web EXCEPT !.awaiting = @ \ {c},
                              !.streams = @ \cup {c},
                              !.processors = @ \cup {c}]
  /\ SessionStep("micGranted", av)

\* stopRecording (lines 273-296): the session fields after it
stopRecording(g) ==
  [g EXCEPT !.isRecording = FALSE, !.scriptProcessorNode = 0, !.sourceNode = 0,
            !.mediaStream = 0]

\* stopRecording (lines 281-292): the browser side after it
stopRecordingWeb(g, w) ==
  [w EXCEPT !.processors =
              IF g.scriptProcessorNode # 0 /\ g.sourceNode # 0
              THEN @ \ {g.scriptProcessorNode} ELSE @,
            !.streams = IF g.mediaStream # 0 THEN @ \ {g.mediaStream} ELSE @,
            !.clean = {}]

\* startRecording after getUserMedia rejected: the catch calls stopRecording
\* (lines 266-270)
MicDenied ==
  /\ \E c \in web.awaiting :
       /\ gdm' = stopRecording(gdm)
       /\ web' = [stopRecordingWeb(gdm, web) EXCEPT !.awaiting = @ \ {c}]
  /\ SessionStep("micDenied", goIdle(av))

\* the stop button, shown while isRecording is true
StopRecording ==
  /\ gdm.isRecording
  /\ gdm' = stopRecording(gdm)
  /\ web' = stopRecordingWeb(gdm, web)
  /\ SessionStep("stopRecording", goIdle(av))

NextSession ==
  \/ OnMessageAudio \/ DecodeDone \/ OnMessageInterrupted \/ Ended \/ AdvanceTime
  \/ OnError \/ OnClose
  \/ StartRecording \/ MicGranted \/ MicDenied \/ StopRecording

SpecSession == Init /\ [][NextSession]_vars

(* ------------------------------- claims -------------------------------- *)
HeadMouthOpen(s) ==
  ReadInfl(s.infl["Wolf3D_Head"], MorphIndex(s.rig, "Wolf3D_Head", "mouthOpen"))
HeadMouthSmile(s) ==
  ReadInfl(s.infl["Wolf3D_Head"], MorphIndex(s.rig, "Wolf3D_Head", "mouthSmile"))

\* C1: once the controller is back in Idle and has run an Idle tick, the avatar's
\* position and rotation on every axis equal those of the run that never left Idle
\* (ref, same clock and audio).
C1_RoundTripPose ==
  (refKind = "idle" /\ av.avatar /\ av._mode = "idle" /\ lastOp = "animate" /\ idleRun >= 1)
    => (av.position = ref.position /\ av.rotation = ref.rotation)

\* C2: both smoothed levels stay within [0,1] in every reachable state.
C2_LevelsInRange ==
  /\ av.outLevel >= 0 /\ av.outLevel <= U
  /\ av.inLevel >= 0 /\ av.inLevel <= U

\* C2 witness: the output level has been driven above 0.5 by full-scale bins while
\* the input channel had only empty buffers.
C2_Witness ==
  lastOp = "animate" /\ av.outputAnalyser /\ av.outLevel > U \div 2 /\ av.inLevel = 0

\* C3 as stated: two consecutive blinks are never less than 2000 ms or more than
\* 6000 ms apart.
C3_GapWithin2000And6000 ==
  prevFire >= 0 => (lastFire - prevFire >= 2000 /\ lastFire - prevFire <= 6000)

\* C3 amended: two consecutive blinks are never less than 2000 ms apart; after a
\* blink the next one is scheduled at least 2000 ms after it and always less than
\* 6000 ms after the current time.
C3_GapAtLeast2000 ==
  /\ prevFire >= 0 => lastFire - prevFire >= 2000
  /\ lastFire >= 0 => av.nextBlinkAt >= lastFire + 2000
  /\ av.nextBlinkAt < now + 6000

\* C3 witness: a second blink has fired on a loaded avatar, more than 6000 ms after
\* the first.
C3_Witness == prevFire >= 0 /\ av.avatar /\ lastFire - prevFire > 6000

\* C4: the first blink does not fire earlier than 2000 ms after the controller was
\* created (time 0).
C4_NoBlinkBefore2000 == (lastFire >= 0 /\ prevFire = -1) => lastFire >= 2000

\* C5: after a tick in Dance the body pose (position-Y, rotation-Y, rotation-Z) is
\* the dance pose of the dance-phase accumulator.
C5_DancePoseFromPhase ==
  (lastOp = "animate" /\ av._mode = "dance" /\ av.avatar)
    => /\ av.position.y = DancePositionY(av.dancePhase)
       /\ av.rotation.y = DanceRotationY(av.dancePhase)
       /\ av.rotation.z = DanceRotationZ(av.dancePhase)

\* C6: a tick in Dance adds exactly that tick's dt to the dance phase; every other
\* step (ticks in the other modes, mode-control calls, loading) leaves it unchanged.
C6_DancePhaseFrame ==
  [][IF ticks' = ticks + 1 /\ av._mode = "dance"
     THEN av'.dancePhase = av.dancePhase + lastDt'
     ELSE av'.dancePhase = av.dancePhase]_vars

\* C6 witness: phase accumulated in Dance was kept by a mode change and a tick
\* outside Dance.
C6_Witness == lastOp = "animate" /\ av._mode # "dance" /\ av.dancePhase > 0

\* C7: after a tick with dt <= 0 in which a blink started, the blink's progress is
\* strictly below its start value 1.0.
C7_BlinkAdvancesAtZeroDt ==
  (lastOp = "animate" /\ lastDt <= 0 /\ lastFire = now) => av.blinkT < U

\* C8: every morph channel value on every mesh stays within [0,1].
C8_MorphsInRange ==
  \A m \in Meshes : \A i \in 1..Len(av.infl[m]) :
    av.infl[m][i] >= 0 /\ av.infl[m][i] <= U

\* C8 witness: an eyelid channel written by a blink and the teeth mesh's mouthOpen
\* are both non-zero.
C8_Witness ==
  /\ av.avatar
  /\ ReadInfl(av.infl["Wolf3D_Head"], MorphIndex(av.rig, "Wolf3D_Head", "eyeBlinkLeft")) > 0
  /\ ReadInfl(av.infl["Wolf3D_Teeth"], MorphIndex(av.rig, "Wolf3D_Teeth", "mouthOpen")) > 0

\* C9: after a tick in Speak every mouthOpen channel equals clamp(outLevel x 3.0, 0, 1)
\* and after a tick in Whisper clamp(outLevel x 1.2, 0, 0.4), with outLevel the level
\* computed in that tick.
C9_MouthOpenDirect ==
  (lastOp = "animate" /\ av.avatar) =>
    \A m \in Meshes :
      LET idx == MorphIndex(av.rig, m, "mouthOpen")
      IN  idx # 0 =>
            /\ av._mode = "speak" => av.infl[m][idx] = Clamp(av.outLevel * 3, 0, U)
            /\ av._mode = "whisper" =>
                 av.infl[m][idx] = Clamp((av.outLevel * 12) \div 10, 0, 400000)

\* C9 witness: a Whisper tick with outLevel x 1.2 above 0.4 left mouthOpen at the cap.
C9_Witness ==
  /\ lastOp = "animate" /\ av.avatar /\ av._mode = "whisper"
  /\ (av.outLevel * 12) \div 10 > 400000
  /\ HeadMouthOpen(av) = 400000

\* C10: the run taking one tick of dt (av) and the run taking two ticks of dt/2 (ref)
\* over the same span, in the same mode with the same audio data, agree on the
\* smoothed levels and on the interpolated channels.
C10_FrameRateIndependent ==
  (refKind = "fine" /\ lastOp = "animate") =>
    /\ av.outLevel = ref.outLevel /\ av.inLevel = ref.inLevel
    /\ HeadMouthSmile(av) = HeadMouthSmile(ref)
    /\ av.head.z = ref.head.z
    /\ av._mode = "idle" => HeadMouthOpen(av) = HeadMouthOpen(ref)
    /\ av._mode = "whisper" => av.position.y = ref.position.y

\* C11: two runs that have only ever ticked in Idle (av and ref, same clock,
\* different analyser data) have identical morph weights, avatar position and
\* rotation, and head rotation on X, Y and Z after every tick.
C11_IdleIgnoresAudio ==
  (refKind = "levels" /\ idleOnly /\ lastOp = "animate" /\ av.avatar) =>
    /\ av.infl = ref.infl
    /\ av.position = ref.position /\ av.rotation = ref.rotation
    /\ av.head = ref.head

\* C12: a tick in which a channel has no analysis data multiplies that channel's
\* level by 0.95 (so N such ticks multiply it by 0.95^N); the level strictly
\* decreases while positive and does not drop to zero from a level above the
\* fixed-point resolution.
DecayStep(before, after) ==
  /\ after = (before * 95) \div 100
  /\ before > 0 => after < before
  /\ before > 1 => after > 0

C12_DecayOnSilence ==
  [][ticks' = ticks + 1 =>
       /\ silent'.out => DecayStep(av.outLevel, av'.outLevel)
       /\ silent'.in => DecayStep(av.inLevel, av'.inLevel)]_vars

\* C12 witness: the input analyser exists, its buffer was empty in the latest tick
\* and the decayed input level is still positive.
C12_Witness ==
  lastOp = "animate" /\ av.inputAnalyser /\ silent.in /\ av.inLevel > 0

\* C13: a mode-control call (goIdle, startSpeaking, startWhisper, startDance,
\* stopDance, the mode setter) changes nothing of the controller but _mode and
\* isDancing: morphs, pose, levels, blink state and dance phase stay as they are,
\* and so does the clock.
C13_ControlFrame ==
  [][(ticks' = ticks /\ lastOp' = "control") =>
       /\ av' = [av EXCEPT !._mode = av'._mode, !.isDancing = av'.isDancing]
       /\ now' = now /\ clock' = clock]_vars

\* C13 witness: a mode-control call has just run on a loaded avatar with an open
\* mouth, a dance pose and a blink in progress.
C13_Witness ==
  /\ lastOp = "control" /\ av.avatar /\ av.blinkT > 0
  /\ HeadMouthOpen(av) > 0 /\ av.rotation.z # 0

\* C14: the run in which startSpeaking() is always called twice in a row (ref) and
\* the run in which it is called once (av) have the same controller state after
\* the call and after every later tick and call.
C14_StartSpeakingIdempotent == refKind = "twice" => av = ref

\* C14 witness: after startSpeaking() from another mode the avatar has ticked in
\* Speak with an open mouth.
C14_Witness ==
  /\ refKind = "twice" /\ lastOp = "animate" /\ av._mode = "speak"
  /\ av.avatar /\ HeadMouthOpen(av) > 0 /\ ~idleOnly

\* C15: a direct or interpolated write to a channel name no mesh has ("mouthFrown",
\* and the "eyesClosed" fallback doBlink writes) leaves the controller as it is, and
\* so does any write issued before the avatar is loaded.
C15_UnknownChannelNoOp ==
  \A v \in {0, U \div 2, U} :
    /\ applyMorph(av, "mouthFrown", v) = av
    /\ lerpMorph(av, "mouthFrown", v, 15) = av
    /\ applyMorph(av, "eyesClosed", v) = av
    /\ ~av.avatar => /\ applyMorph(av, "mouthOpen", v) = av
                     /\ lerpMorph(av, "mouthOpen", v, 15) = av

\* C15 witness: a loaded avatar with non-zero morphs has just run an Active blink
\* tick, which issued the write to the missing "eyesClosed" channel.
C15_Witness ==
  /\ lastOp = "animate" /\ av.avatar /\ av.blinkT > 0 /\ av.blinkT < U
  /\ HeadMouthOpen(av) > 0

\* C16: on a loaded avatar every tick of an active blink leaves the eyelid
\* channels between 0 and 1, the tick that ends the blink leaves them at
\* exactly 0, and they are 0 whenever the avatar is loaded and no blink is
\* in progress.
C16_EyelidsReleased ==
  [][/\ (ticks' = ticks + 1 /\ av.avatar /\ BlinkActive(av, now')) =>
          /\ \A v \in EyelidValues(av') : v >= 0 /\ v <= U
          /\ av'.blinkT <= 0 => EyelidValues(av') = {0}
     /\ (av'.avatar /\ av'.blinkT <= 0) => EyelidValues(av') = {0}]_vars
C16_Witness ==
  /\ lastOp = "animate" /\ av.avatar /\ av.blinkT <= 0
  /\ blinkPeak > 0 /\ EyelidValues(av) = {0}

\* C17: every blink whose ticks all have a positive dt writes the value 1.0
\* to the eyelid channels in one of its ticks.
C17_EveryBlinkFullyCloses ==
  (av.avatar /\ lastFire > 0 /\ av.blinkT <= 0 /\ blinkPeak >= 0) => blinkPeak = U

\* C17 (amended): on a loaded avatar every tick of an active blink writes
\* 1 - |1 - 2 * max(progress, 0)| to every eyelid channel, where progress is
\* the countdown after this tick's decrement of 6 * dt; the peak a blink
\* writes therefore depends on the tick spacing and never exceeds 1.0.
C17_EnvelopeOfProgress ==
  [][(ticks' = ticks + 1 /\ av.avatar /\ BlinkActive(av, now')) =>
       LET start == IF BlinkFires(av, now') THEN U ELSE av.blinkT
           progress == start - 6000 * lastDt'
           shown == IF progress > 0 THEN progress ELSE 0
       IN  /\ av'.blinkT = progress
           /\ EyelidValues(av') = {U - Abs(U - 2 * shown)}
           /\ blinkPeak' >= U - Abs(U - 2 * shown) /\ blinkPeak' <= U]_vars
C17_Witness ==
  /\ lastOp = "animate" /\ av.avatar /\ av.blinkT > 0 /\ av.blinkT < U \div 2
  /\ HeadEyelid(av) = 2 * av.blinkT /\ blinkPeak = HeadEyelid(av)

\* C18: in a Speak tick that leaves the output level unchanged, mouthSmile
\* ends no farther from clamp(outLevel * 3, 0, 1) than it started.
C18_SmileNoFarther ==
  [][(ticks' = ticks + 1 /\ av.avatar /\ av._mode = "speak"
        /\ av'.outLevel = av.outLevel) =>
       LET mouth == Clamp(av.outLevel * 3, 0, U)
       IN  Abs(HeadMouthSmile(av') - mouth) <= Abs(HeadMouthSmile(av) - mouth)]_vars

\* C18 (amended): every Speak tick on a loaded avatar first pulls mouthSmile
\* toward 0 at rate 0.12 and then toward mouth = clamp(outLevel * 3, 0, 1) at
\* rate 0.15, so smile' = 0.748 * smile + 0.15 * mouth; under a constant
\* output level the distance to 0.15 / 0.252 * mouth (about 0.595 * mouth,
\* not mouth) shrinks by the factor 0.748 per tick.
C18_SmileRecurrence ==
  [][(ticks' = ticks + 1 /\ av.avatar /\ av._mode = "speak") =>
       LET mouth == Clamp(av'.outLevel * 3, 0, U)
           rest == (150 * mouth) \div 252
       IN  /\ HeadMouthSmile(av') =
                (85 * ((88 * HeadMouthSmile(av)) \div 100) + 15 * mouth) \div 100
           /\ av'.outLevel = av.outLevel =>
                1000 * Abs(HeadMouthSmile(av') - rest)
                  <= 748 * Abs(HeadMouthSmile(av) - rest) + 2000]_vars
C18_Witness ==
  /\ refKind = "quiet" /\ lastOp = "animate" /\ av.avatar /\ av._mode = "speak"
  /\ av.outLevel > 0
  /\ \E data \in QuietSnapshots :
       pullLevel(av.outputAnalyser, data.out, av.outLevel, 35) = av.outLevel
  /\ HeadMouthSmile(av) > (150 * Clamp(av.outLevel * 3, 0, U)) \div 252
  /\ HeadMouthSmile(av) < Clamp(av.outLevel * 3, 0, U)

\* C19: a blink in progress ends after finitely many further frames, in any
\* mode and whatever control calls come in between: no step but a frame
\* changes the countdown, every frame of a blink in progress lowers it by
\* 6 * dt, and a blink starts only when none is in progress.
C19_BlinkTerminates ==
  /\ [][/\ av'.blinkT # av.blinkT => ticks' = ticks + 1
        /\ av'.blinkT > av.blinkT => av.blinkT <= 0 /\ lastFire' = now'
        /\ lastFire' # lastFire => av.blinkT <= 0 /\ ticks' = ticks + 1
        /\ (ticks' = ticks + 1 /\ av.blinkT > 0) =>
             av'.blinkT = av.blinkT - 6000 * lastDt']_vars
  /\ LET least == CHOOSE d \in DtSet : \A e \in DtSet : d <= e
         frames == (U + 6000 * least - 1) \div (6000 * least)
     IN  (av.blinkT > 0 /\ ticks + frames <= MaxTicks) ~> (av.blinkT <= 0)
C19_Witness ==
  /\ lastOp = "animate" /\ lastFire >= 0 /\ lastFire < now /\ lastDt > 0
  /\ av.blinkT <= 0 /\ av._mode # "idle" /\ blinkPeak > 0

\* C20: whatever the frame's inputs, the blink step at the end of animate
\* changes nothing when no blink is in progress and none starts; otherwise it
\* changes only the countdown, the next blink time and the eyelid channels
\* (eyeBlinkLeft, eyeBlinkRight, eyesClosed): mode, levels, dance phase, pose
\* and every other morph channel stay as the rest of the frame left them.
C20_BlinkFrame ==
  \A d \in FrameDelays, data \in FrameSnapshots :
    LET t == now + d
        dt == ClockGetDelta(clock, t)
        body == animateBody(av, t, dt, data)
    IN  \A r \in RandomOffsets :
          LET blinked == doBlink(body, t, dt, r)
          IN  /\ blinked = [body EXCEPT !.blinkT = blinked.blinkT,
                                        !.nextBlinkAt = blinked.nextBlinkAt,
                                        !.infl = blinked.infl]
              /\ \A m \in Meshes :
                   /\ Len(blinked.infl[m]) = Len(body.infl[m])
                   /\ \A i \in 1..Len(body.infl[m]) :
                        MorphNames(body.rig, m)[i] \notin EyelidNames =>
                          blinked.infl[m][i] = body.infl[m][i]
              /\ ~(BlinkFires(body, t) \/ body.blinkT > 0) => blinked = body
C20_Witness ==
  /\ av.avatar /\ HeadMouthOpen(av) > 0 /\ av.rotation.z # 0 /\ av._mode # "idle"
  /\ \E d \in FrameDelays, data \in FrameSnapshots, r \in RandomOffsets :
       LET t == now + d
           dt == ClockGetDelta(clock, t)
           body == animateBody(av, t, dt, data)
       IN  /\ body.blinkT > 0
           /\ doBlink(body, t, dt, r).infl # body.infl
           /\ HeadMouthOpen(body) > 0

\* the teeth mesh's mouthOpen influence, read at the teeth mesh's own index
TeethMouthOpen(s) ==
  ReadInfl(s.infl["Wolf3D_Teeth"], MorphIndex(s.rig, "Wolf3D_Teeth", "mouthOpen"))

\* C21: on a loaded avatar whose head and teeth meshes both have a mouthOpen
\* channel, the teeth mesh's mouthOpen value equals the head mesh's after
\* every tick, in every mode and on the rig whose two meshes index mouthOpen
\* at different positions.
C21_TeethFollowMouth ==
  (av.avatar /\ MorphIndex(av.rig, "Wolf3D_Head", "mouthOpen") # 0
             /\ MorphIndex(av.rig, "Wolf3D_Teeth", "mouthOpen") # 0) =>
    TeethMouthOpen(av) = HeadMouthOpen(av)
C21_Witness ==
  /\ lastOp = "animate" /\ av.avatar /\ av.rig = "shifted" /\ av._mode = "speak"
  /\ MorphIndex(av.rig, "Wolf3D_Head", "mouthOpen")
       # MorphIndex(av.rig, "Wolf3D_Teeth", "mouthOpen")
  /\ HeadMouthOpen(av) > 0 /\ TeethMouthOpen(av) > 0

\* C22: the mode is always one of idle, speak, whisper, dance; from any
\* reachable state startSpeaking leads to speak, startWhisper to whisper,
\* startDance to dance, goIdle to idle, and stopDance leads to idle from
\* dance and keeps the mode from speak, whisper and idle.
C22_ModeTransitions ==
  /\ av._mode \in Modes
  /\ startSpeaking(av)._mode = "speak"
  /\ startWhisper(av)._mode = "whisper"
  /\ startDance(av)._mode = "dance"
  /\ goIdle(av)._mode = "idle"
  /\ av._mode = "dance" => stopDance(av)._mode = "idle"
  /\ av._mode \in {"speak", "whisper", "idle"} => stopDance(av)._mode = av._mode
C22_Witness ==
  /\ lastOp = "control" /\ av._mode = "whisper" /\ ~av.isDancing
  /\ av.dancePhase > 0 /\ ticks > 0

\* C23: isDancing is true exactly when the mode is dance.
C23_DancingIffDance == av.isDancing <=> av._mode = "dance"

\* C24: while a chunk received since the latest interruption, error, close
\* or stop-recording is being decoded or has its source in the sources set,
\* the avatar mode is speak.
C24_SpeakWhileAudio ==
  \A m \in web.clean :
    (web.phase[m] = "decoding" \/ m \in gdm.sources) => av._mode = "speak"

\* C25: no chunk received before an interruption is in the sources set or
\* playing after that interruption has been handled.
C25_NoStalePlayback ==
  \A m \in web.stale : m \notin gdm.sources /\ web.phase[m] # "playing"

\* C26: the playback intervals [actual start, actual end) of any two started
\* sources are disjoint, and sources start in arrival order.
C26_BackToBack ==
  /\ \A i, j \in 1..Len(web.started) : i < j => web.started[i] < web.started[j]
  /\ \A i, j \in 1..Len(web.started) :
       LET a == web.started[i]
           b == web.started[j]
       IN  (i # j /\ web.startAt[a] < web.endAt[a] /\ web.startAt[b] < web.endAt[b]) =>
             (web.endAt[a] <= web.startAt[b] \/ web.endAt[b] <= web.startAt[a])

\* C27: at most one microphone stream and one script processor are live at
\* any time, and right after stopRecording no stream is live and isRecording
\* is false.
C27_OneCapturePipeline ==
  /\ Cardinality(web.streams) <= 1
  /\ Cardinality(web.processors) <= 1
  /\ lastOp = "stopRecording" => web.streams = {} /\ ~gdm.isRecording

TypeOK ==
  /\ av._mode \in Modes
  /\ av.isDancing \in BOOLEAN
====
